---- MODULE Spec2Model ----
(***************************************************************************)
(* A model of ichnaea's base location provider                             *)
(* (ichnaea/api/locate/provider.py) and of the logging tween               *)
(* (ichnaea/log.py).                                                       *)
(*                                                                         *)
(* Python values are records [type, v, items]: type is the Python type's   *)
(* name, v the number a scalar carries (a bool's 0/1, an int or float's    *)
(* value, a str's or list's length) and items the key/value pairs of a     *)
(* dict.  The code is Python 2 (ichnaea 1.2): None orders below every      *)
(* number, so max(None, minimum) is minimum.                               *)
(***************************************************************************)
EXTENDS Integers, Sequences, FiniteSets, TLC

VARIABLES
    fallback_field,  \* Provider.fallback_field
    log_name,        \* Provider.log_name
    api_key,         \* StatsLogger.api_key: [name, log]
    stats,           \* the stat_count calls made so far, oldest first
    raven,           \* number of raven_client.captureException() calls
    call,            \* the Provider method called last
    query,           \* the query argument of the last should_locate call
    location,        \* the location argument of the last should_locate call
    lat, lon,        \* the centroid of the last _estimate_accuracy call
    points,          \* the points of the last _estimate_accuracy call
    minimum,         \* the minimum of the last _estimate_accuracy call
    ret,             \* outcome of the last call: [kind, value, exc]
    tw_pc,           \* log_tween: position of each request
    tw_outcome,      \* log_tween: what handler(request) does for each request
    tw_msgs,         \* log_tween: stats/raven calls in order, <<request, event, status>>
    tw_result,       \* log_tween: what each request's caller receives
    s_results,       \* search: result of each provider that ran
    s_done,          \* search: providers that finished, in finishing order
    s_best           \* search: the result returned

vars == <<fallback_field, log_name, api_key, stats, raven, call, query, location,
          lat, lon, points, minimum, ret,
          tw_pc, tw_outcome, tw_msgs, tw_result, s_results, s_done, s_best>>

providerVars == <<fallback_field, log_name, api_key, stats, raven, call, query,
                  location, lat, lon, points, minimum, ret>>
tweenVars == <<tw_pc, tw_outcome, tw_msgs, tw_result>>
searchVars == <<s_results, s_done, s_best>>

-----------------------------------------------------------------------------
(* Bounds *)

MaxStats == 3       \* stat_count calls recorded per run
MaxRaven == 2       \* captureException calls recorded per run
MaxLen == 3         \* observations per cluster
MaxRequests == 2    \* requests passing through log_tween at once
NumProviders == 3   \* providers of a search, in priority order

-----------------------------------------------------------------------------
(* Python values *)

Scalar(t, n) == [type |-> t, v |-> n, items |-> {}]
PyNone == Scalar("NoneType", 0)
PyTrue == Scalar("bool", 1)
PyFalse == Scalar("bool", 0)
PyInt(n) == Scalar("int", n)
PyFloat(n) == Scalar("float", n)
PyStr(n) == Scalar("str", n)
PyList(n) == Scalar("list", n)
PyDict(kv) == [type |-> "dict", v |-> 0, items |-> kv]

\* Python truth value testing: None, False, zero, and empty strings and
\* containers are false.
Truthy(x) == IF x.type = "dict" THEN x.items # {} ELSE x.v # 0

\* bool(x)
bool(x) == IF Truthy(x) THEN PyTrue ELSE PyFalse

\* float(x) of a number
float(x) == PyFloat(x.v)

\* dict.get(key, default)
dict_get(d, key, default) ==
    IF \E kv \in d.items : kv[1] = key
    THEN (CHOOSE kv \in d.items : kv[1] = key)[2]
    ELSE default

\* Outcomes of a call
Return(x) == [kind |-> "return", value |-> x, exc |-> ""]
Raise(e) == [kind |-> "raise", value |-> PyNone, exc |-> e]
NoCall == [kind |-> "none", value |-> PyNone, exc |-> ""]

-----------------------------------------------------------------------------
(* Provider.should_locate *)

NoField == "None"
FieldNames == {"fallback", "another_fallback"}

\* What query.fallbacks may hold under a key.
FallbackValues == {PyTrue, PyFalse, PyInt(0), PyInt(1), PyStr(0), PyStr(4), PyNone}

\* The dicts over FieldNames: each key is absent or maps to one value.
Absent == Scalar("absent", 0)
FallbackDicts ==
    {PyDict({<<k, f[k]>> : k \in {n \in FieldNames : f[n] # Absent}}) :
        f \in [FieldNames -> FallbackValues \cup {Absent}]}

\* What reading query.fallbacks may yield: a dict, or a value that is no dict.
FallbackObjects ==
    FallbackDicts \cup {PyNone, PyList(0), PyList(1), PyStr(0), PyStr(4), PyInt(0)}

\* A query: reading its fallbacks attribute either raises `raises` or yields
\* `fallbacks`.
Queries ==
    {[raises |-> "", fallbacks |-> f] : f \in FallbackObjects}
      \cup {[raises |-> e, fallbacks |-> PyNone] : e \in {"ValueError", "AttributeError"}}

\* The fallbacks.get(self.fallback_field, True) call: only a dict has get.
fallbacks_get(fallbacks, field) ==
    IF fallbacks.type = "dict"
    THEN Return(dict_get(fallbacks, field, PyTrue))
    ELSE Raise("AttributeError")

\* should_locate(self, query, location): [ret, captured], captured the number
\* of raven_client.captureException() calls it makes.
should_locate(self_fallback_field, q, loc) ==
    IF self_fallback_field # NoField
    THEN IF q.raises # ""
         THEN IF q.raises = "ValueError"
              THEN [ret |-> Return(PyTrue), captured |-> 1]
              ELSE [ret |-> Raise(q.raises), captured |-> 0]
         ELSE IF Truthy(q.fallbacks)
              THEN LET got == fallbacks_get(q.fallbacks, self_fallback_field)
                   IN  IF got.kind = "raise"
                       THEN [ret |-> got, captured |-> 0]
                       ELSE [ret |-> Return(bool(got.value)), captured |-> 0]
              ELSE [ret |-> Return(PyTrue), captured |-> 0]
    ELSE [ret |-> Return(PyTrue), captured |-> 0]

Locations == {"EmptyLocation", "Position"}

ShouldLocate ==
    \E q \in Queries, loc \in Locations :
        LET r == should_locate(fallback_field, q, loc)
        IN  /\ raven + r.captured <= MaxRaven
            /\ call' = "should_locate"
            /\ query' = q
            /\ location' = loc
            /\ ret' = r.ret
            /\ raven' = raven + r.captured
            /\ UNCHANGED <<fallback_field, log_name, api_key, stats,
                           lat, lon, points, minimum>>
            /\ UNCHANGED <<tweenVars, searchVars>>

-----------------------------------------------------------------------------
(* Provider.log_hit / log_success / log_failure *)

LogNames == {"wifi", "test"}
ApiKeys == {[name |-> "test", log |-> TRUE], [name |-> "nolog", log |-> FALSE]}

\* '{metric}_hit'.format(metric=...)
metric_hit(metric) == <<metric, "_hit">>
\* 'api_log.{key}.{metric}_hit'.format(key=..., metric=...)
api_log_hit(key, metric) == <<"api_log.", key, ".", metric, "_hit">>
\* 'api_log.{key}.{metric}_miss'.format(key=..., metric=...)
api_log_miss(key, metric) == <<"api_log.", key, ".", metric, "_miss">>

\* StatsLogger.stat_count(stat): one counter increment named stat.
stat_count(sent, stat) == Append(sent, stat)

log_hit(sent, self_log_name) == stat_count(sent, metric_hit(self_log_name))

\* log_success without the api_key.log gate
log_success_ungated(sent, self_api_key, self_log_name) ==
    stat_count(sent, api_log_hit(self_api_key.name, self_log_name))

log_success(sent, self_api_key, self_log_name) ==
    IF self_api_key.log
    THEN stat_count(sent, api_log_hit(self_api_key.name, self_log_name))
    ELSE sent

log_failure(sent, self_api_key, self_log_name) ==
    IF self_api_key.log
    THEN stat_count(sent, api_log_miss(self_api_key.name, self_log_name))
    ELSE sent

LogCall(name, sent) ==
    /\ Len(sent) <= MaxStats
    /\ call' = name
    /\ stats' = sent
    /\ ret' = Return(PyNone)
    /\ UNCHANGED <<fallback_field, log_name, api_key, raven, query, location,
                   lat, lon, points, minimum>>
    /\ UNCHANGED <<tweenVars, searchVars>>

LogHit == LogCall("log_hit", log_hit(stats, log_name))
LogSuccess == LogCall("log_success", log_success(stats, api_key, log_name))
LogFailure == LogCall("log_failure", log_failure(stats, api_key, log_name))

-----------------------------------------------------------------------------
(* Provider._estimate_accuracy *)

\* Network = namedtuple('Network', ['key', 'lat', 'lon', 'range'])
Network(key, la, lo, range) == [key |-> key, lat |-> la, lon |-> lo, range |-> range]

\* Coordinates are offsets on a local plane, one unit a metre.
Positions == {<<0, 0>>, <<3, 4>>, <<0, 8>>, <<12, 0>>}
Centroids == {<<0, 0>>, <<3, 4>>}
Ranges == {PyNone, PyInt(7), PyInt(20)}
Minimums == {PyInt(10), PyInt(30)}
Observations == {Network("k", p[1], p[2], r) : p \in Positions, r \in Ranges}

RECURSIVE SeqsUpTo(_, _)
SeqsUpTo(S, n) ==
    IF n = 0 THEN {<<>>}
    ELSE LET shorter == SeqsUpTo(S, n - 1)
         IN  shorter \cup {Append(s, x) : s \in {t \in shorter : Len(t) = n - 1}, x \in S}

\* A float of kilometres is held as its number of thousandths.
KmDenominator == 1000

isqrt(n) == CHOOSE r \in 0..n : r * r <= n /\ (r + 1) * (r + 1) > n

\* ichnaea.geocalc.distance: the distance between two positions, here on
\* the local plane.  It is in kilometres: _estimate_accuracy multiplies it
\* by 1000 to get metres.
distance(lat1, lon1, lat2, lon2) ==
    isqrt((lat1 - lat2) * (lat1 - lat2) + (lon1 - lon2) * (lon1 - lon2))

\* distance(lat, lon, p.lat, p.lon) * 1000, a float of metres
distance_times_1000(la, lo, p) ==
    PyFloat((distance(la, lo, p.lat, p.lon) * 1000) \div KmDenominator)

\* b > a in Python 2, where None orders below every number.
py_gt(b, a) ==
    IF b.type = "NoneType" THEN FALSE
    ELSE IF a.type = "NoneType" THEN TRUE
    ELSE b.v > a.v

\* max(a, b): the first of the largest.
py_max(a, b) == IF py_gt(b, a) THEN b ELSE a

RECURSIVE py_max_fold(_)
py_max_fold(s) ==
    IF Len(s) = 1 THEN s[1]
    ELSE py_max(py_max_fold(SubSeq(s, 1, Len(s) - 1)), s[Len(s)])

\* max(list, default=None): no error on an empty list
py_max_list_default(s) ==
    IF s = <<>> THEN Return(PyNone) ELSE Return(py_max_fold(s))

\* max(list): ValueError on an empty list.
py_max_list(s) ==
    IF s = <<>> THEN Raise("ValueError") ELSE Return(py_max_fold(s))

\* max([p.range for p in points]): the worst-case range
max_range(la, lo, pts) ==
    py_max_list([i \in 1..Len(pts) |-> pts[i].range])

\* max([distance(lat, lon, p.lat, p.lon) * 1000 for p in points])
max_distance(la, lo, pts) ==
    py_max_list([i \in 1..Len(pts) |-> distance_times_1000(la, lo, pts[i])])

\* _estimate_accuracy returning the accuracy without the minimum
_estimate_accuracy_unfloored(la, lo, pts, min) ==
    LET computed ==
            IF Len(pts) = 1 THEN Return(pts[1].range) ELSE max_distance(la, lo, pts)
        accuracy ==
            IF computed.value # PyNone THEN float(computed.value) ELSE computed.value
    IN  IF computed.kind = "raise" THEN computed ELSE Return(accuracy)

\* _estimate_accuracy without the branch for one observation
_estimate_accuracy_always_distance(la, lo, pts, min) ==
    LET computed == max_distance(la, lo, pts)
        accuracy ==
            IF computed.value # PyNone THEN float(computed.value) ELSE computed.value
    IN  IF computed.kind = "raise" THEN computed ELSE Return(py_max(accuracy, min))

\* _estimate_accuracy taking the first range for up to two observations
_estimate_accuracy_pair_as_single(la, lo, pts, min) ==
    LET computed ==
            IF Len(pts) \in {1, 2} THEN Return(pts[1].range)
            ELSE max_distance(la, lo, pts)
        accuracy ==
            IF computed.value # PyNone THEN float(computed.value) ELSE computed.value
    IN  IF computed.kind = "raise" THEN computed ELSE Return(py_max(accuracy, min))

\* _estimate_accuracy(self, lat, lon, points, minimum)
_estimate_accuracy(la, lo, pts, min) ==
    LET computed ==
            IF Len(pts) = 1 THEN Return(pts[1].range) ELSE max_distance(la, lo, pts)
        accuracy ==
            IF computed.value # PyNone THEN float(computed.value) ELSE computed.value
    IN  IF computed.kind = "raise" THEN computed ELSE Return(py_max(accuracy, min))

\* One call, on the arguments the behaviour started with.
EstimateAccuracy ==
    /\ call = "none"
    /\ call' = "_estimate_accuracy"
    /\ ret' = _estimate_accuracy(lat, lon, points, minimum)
    /\ UNCHANGED <<fallback_field, log_name, api_key, stats, raven, query, location,
                   lat, lon, points, minimum>>
    /\ UNCHANGED <<tweenVars, searchVars>>

-----------------------------------------------------------------------------
(* log_tween_factory.log_tween *)

Requests == 1..MaxRequests

\* What handler(request) may do: return a response, or raise an exception of
\* a class given by the classes its isinstance tests accept.
Response(status) ==
    [kind |-> "response", cls |-> "Response", status_code |-> status,
     BaseClientError |-> FALSE, HTTPRedirection |-> FALSE,
     HTTPClientError |-> FALSE, HTTPException |-> FALSE]
Raised(cls, status, base, redirection, client, http) ==
    [kind |-> "raise", cls |-> cls, status_code |-> status,
     BaseClientError |-> base, HTTPRedirection |-> redirection,
     HTTPClientError |-> client, HTTPException |-> http]

HandlerOutcomes ==
    { Response(200),
      Raised("ParseError", 400, TRUE, FALSE, FALSE, TRUE),
      Raised("DailyLimitExceeded", 403, TRUE, FALSE, TRUE, TRUE),
      Raised("HTTPFound", 302, FALSE, TRUE, FALSE, TRUE),
      Raised("HTTPNotFound", 404, FALSE, FALSE, TRUE, TRUE),
      Raised("HTTPServiceUnavailable", 503, FALSE, FALSE, FALSE, TRUE),
      Raised("ValueError", 0, FALSE, FALSE, FALSE, FALSE) }

\* An except clause that handles no redirection apart
except_clause_no_redirection(out) ==
    IF out.kind = "response" THEN "else"
    ELSE IF out.BaseClientError THEN "BaseClientError, HTTPRedirection"
    ELSE IF out.HTTPClientError THEN "HTTPClientError"
    ELSE "Exception"

\* The clause of the try statement that handles what handler(request) did:
\* the first except clause whose classes accept the exception, or else.
except_clause(out) ==
    IF out.kind = "response" THEN "else"
    ELSE IF out.BaseClientError \/ out.HTTPRedirection
         THEN "BaseClientError, HTTPRedirection"
    ELSE IF out.HTTPClientError THEN "HTTPClientError"
    ELSE "Exception"

\* The status_code counter_send is called with.
counter_status(out) ==
    IF except_clause(out) = "Exception"
    THEN IF out.HTTPException THEN out.status_code ELSE 500
    ELSE out.status_code

\* response = handler(request)
CallHandler(r) ==
    /\ tw_pc[r] = "handler"
    /\ \E out \in HandlerOutcomes :
        /\ tw_outcome' = [tw_outcome EXCEPT ![r] = out]
        /\ tw_pc' = [tw_pc EXCEPT ![r] =
                        IF except_clause(out) = "HTTPClientError"
                        THEN "raise" ELSE "timer_send"]
    /\ UNCHANGED <<tw_msgs, tw_result>>
    /\ UNCHANGED <<providerVars, searchVars>>

\* timer_send()
TimerSend(r) ==
    /\ tw_pc[r] = "timer_send"
    /\ tw_msgs' = Append(tw_msgs, <<r, "timing", 0>>)
    /\ tw_pc' = [tw_pc EXCEPT ![r] = "counter_send"]
    /\ UNCHANGED <<tw_outcome, tw_result>>
    /\ UNCHANGED <<providerVars, searchVars>>

\* counter_send(status)
CounterSend(r) ==
    /\ tw_pc[r] = "counter_send"
    /\ tw_msgs' = Append(tw_msgs, <<r, "incr", counter_status(tw_outcome[r])>>)
    /\ tw_pc' = [tw_pc EXCEPT ![r] =
                    CASE except_clause(tw_outcome[r]) = "else" -> "return"
                      [] except_clause(tw_outcome[r]) = "Exception" -> "captureException"
                      [] OTHER -> "raise"]
    /\ UNCHANGED <<tw_outcome, tw_result>>
    /\ UNCHANGED <<providerVars, searchVars>>

\* raven_client.captureException()
CaptureException(r) ==
    /\ tw_pc[r] = "captureException"
    /\ tw_msgs' = Append(tw_msgs, <<r, "captureException", 0>>)
    /\ tw_pc' = [tw_pc EXCEPT ![r] = "raise"]
    /\ UNCHANGED <<tw_outcome, tw_result>>
    /\ UNCHANGED <<providerVars, searchVars>>

\* raise
Reraise(r) ==
    /\ tw_pc[r] = "raise"
    /\ tw_result' = [tw_result EXCEPT ![r] = tw_outcome[r]]
    /\ tw_pc' = [tw_pc EXCEPT ![r] = "done"]
    /\ UNCHANGED <<tw_outcome, tw_msgs>>
    /\ UNCHANGED <<providerVars, searchVars>>

\* return response
ReturnResponse(r) ==
    /\ tw_pc[r] = "return"
    /\ tw_result' = [tw_result EXCEPT ![r] = tw_outcome[r]]
    /\ tw_pc' = [tw_pc EXCEPT ![r] = "done"]
    /\ UNCHANGED <<tw_outcome, tw_msgs>>
    /\ UNCHANGED <<providerVars, searchVars>>

NoOutcome ==
    [kind |-> "none", cls |-> "", status_code |-> 0,
     BaseClientError |-> FALSE, HTTPRedirection |-> FALSE,
     HTTPClientError |-> FALSE, HTTPException |-> FALSE]

-----------------------------------------------------------------------------
(* The search over an ordered list of providers *)

Providers == 1..NumProviders

\* The providers in priority order; the last is gated by the fallback field.
provider_field(i) == IF i = NumProviders THEN "fallback" ELSE NoField

\* A Location result: Empty, or a found Position with its accuracy.
NoResult == [provider |-> 0, kind |-> "pending", accuracy |-> 0]
Empty(i) == [provider |-> i, kind |-> "empty", accuracy |-> 0]
Position(i, acc) == [provider |-> i, kind |-> "found", accuracy |-> acc]
\* locate failed with ProviderUnavailable
Unavailable(i) == [provider |-> i, kind |-> "unavailable", accuracy |-> 0]
Accuracies == {10, 50}

SearchQueries ==
    {[raises |-> "", fallbacks |-> f] :
        f \in {PyNone, PyDict({<<"fallback", PyFalse>>}), PyDict({<<"fallback", PyTrue>>})}}

\* Precedence in which a tie goes to the later provider
better_or_equal(new, best) ==
    /\ new.kind = "found"
    /\ best.kind = "found" => new.accuracy <= best.accuracy

\* Precedence: a found result beats Empty, and of two found results the one
\* with the smaller accuracy wins; a tie keeps the earlier result.
better(new, best) ==
    /\ new.kind = "found"
    /\ best.kind = "found" => new.accuracy < best.accuracy

\* The results folded in priority order under the precedence.
RECURSIVE fold_results(_, _)
fold_results(results, n) ==
    IF n = 0 THEN Empty(0)
    ELSE LET best == fold_results(results, n - 1)
         IN  IF better(results[n], best) THEN results[n] ELSE best

\* One provider's step: skipped when should_locate is false; otherwise locate
\* returns Empty or a Position, or fails with ProviderUnavailable, which
\* contributes no result.  Providers finish in any order.
RunProvider(i) ==
    /\ s_results[i].kind = "pending"
    /\ s_best.kind = "pending"
    /\ LET gate == should_locate(provider_field(i), query, "EmptyLocation").ret
       IN  IF gate = Return(PyFalse)
           THEN s_results' = [s_results EXCEPT ![i] = Empty(i)]
           ELSE \E res \in {Empty(i), Unavailable(i)}
                              \cup {Position(i, a) : a \in Accuracies} :
                   s_results' = [s_results EXCEPT ![i] = res]
    /\ s_done' = Append(s_done, i)
    /\ UNCHANGED s_best
    /\ UNCHANGED <<providerVars, tweenVars>>

\* The terminal step: the current best after every provider has finished.
ReturnBest ==
    /\ Len(s_done) = NumProviders
    /\ s_best.kind = "pending"
    /\ s_best' = fold_results(s_results, NumProviders)
    /\ UNCHANGED <<s_results, s_done>>
    /\ UNCHANGED <<providerVars, tweenVars>>

-----------------------------------------------------------------------------
(* Initial states *)

IdleProvider ==
    /\ stats = <<>>
    /\ raven = 0
    /\ call = "none"
    /\ query = [raises |-> "", fallbacks |-> PyNone]
    /\ location = "EmptyLocation"
    /\ lat = 0
    /\ lon = 0
    /\ points = <<>>
    /\ minimum = PyInt(0)
    /\ ret = NoCall

IdleTween ==
    /\ tw_pc = <<>>
    /\ tw_outcome = <<>>
    /\ tw_msgs = <<>>
    /\ tw_result = <<>>

IdleSearch ==
    /\ s_results = <<>>
    /\ s_done = <<>>
    /\ s_best = NoResult

\* A provider as constructed: its class attributes and its caller's key.
Init ==
    /\ fallback_field \in {NoField, "fallback"}
    /\ log_name \in LogNames
    /\ api_key \in ApiKeys
    /\ IdleProvider
    /\ IdleTween
    /\ IdleSearch

\* The policy gate of a provider.
Next == ShouldLocate

Spec == Init /\ [][Next]_vars

\* The accuracy estimator, on every cluster, centroid and minimum of the bounds.
EstimateInit ==
    /\ fallback_field = NoField
    /\ log_name = "wifi"
    /\ api_key \in {k \in ApiKeys : k.log}
    /\ stats = <<>>
    /\ raven = 0
    /\ call = "none"
    /\ query = [raises |-> "", fallbacks |-> PyNone]
    /\ location = "EmptyLocation"
    /\ \E c \in Centroids : lat = c[1] /\ lon = c[2]
    /\ points \in SeqsUpTo(Observations, MaxLen)
    /\ minimum \in Minimums
    /\ ret = NoCall
    /\ IdleTween
    /\ IdleSearch

EstimateNext == EstimateAccuracy

EstimateSpec == EstimateInit /\ [][EstimateNext]_vars

\* Requests entering log_tween, each about to call its handler.
TweenInit ==
    /\ fallback_field = NoField
    /\ log_name = "wifi"
    /\ api_key \in {k \in ApiKeys : k.log}
    /\ IdleProvider
    /\ tw_pc = [r \in Requests |-> "handler"]
    /\ tw_outcome = [r \in Requests |-> NoOutcome]
    /\ tw_msgs = <<>>
    /\ tw_result = [r \in Requests |-> NoOutcome]
    /\ IdleSearch

TweenNext ==
    \E r \in Requests :
        \/ CallHandler(r)
        \/ TimerSend(r)
        \/ CounterSend(r)
        \/ CaptureException(r)
        \/ Reraise(r)
        \/ ReturnResponse(r)

TweenSpec == TweenInit /\ [][TweenNext]_vars

\* A search about to run its providers on a query.
SearchInit ==
    /\ fallback_field = NoField
    /\ log_name = "wifi"
    /\ api_key \in {k \in ApiKeys : k.log}
    /\ stats = <<>>
    /\ raven = 0
    /\ call = "none"
    /\ query \in SearchQueries
    /\ location = "EmptyLocation"
    /\ lat = 0
    /\ lon = 0
    /\ points = <<>>
    /\ minimum = PyInt(0)
    /\ ret = NoCall
    /\ IdleTween
    /\ s_results = [i \in Providers |-> NoResult]
    /\ s_done = <<>>
    /\ s_best = NoResult

SearchNext == (\E i \in Providers : RunProvider(i)) \/ ReturnBest

SearchSpec == SearchInit /\ [][SearchNext]_vars

\* The telemetry of a provider.
TelemetryNext == LogHit \/ LogSuccess \/ LogFailure

TelemetrySpec == Init /\ [][TelemetryNext]_vars

-----------------------------------------------------------------------------
(* Properties of should_locate *)

WellFormed(q) == q.raises = "" /\ q.fallbacks.type \in {"dict", "NoneType"}

MapsToFalse(q, field) ==
    /\ q.raises = ""
    /\ q.fallbacks.type = "dict"
    /\ <<field, PyFalse>> \in q.fallbacks.items

\* C1: on a query whose fallbacks is absent or a map, should_locate returns
\* false when the provider has a fallback_field and the map holds the boolean
\* False under it, and returns true for every other input (no fallback_field,
\* an absent or empty map, a missing key, a non-boolean value).
C1_FalseOnlyOnExplicitFalse ==
    (call = "should_locate" /\ WellFormed(query)) =>
        ret = Return(IF fallback_field # NoField /\ MapsToFalse(query, fallback_field)
                     THEN PyFalse ELSE PyTrue)

\* C3: for a provider with a fallback_field and a query whose fallbacks
\* cannot be read or is not a well-formed map, should_locate raises nothing
\* and returns true.
C3_MalformedNeverAborts ==
    (call = "should_locate" /\ fallback_field # NoField /\ ~WellFormed(query)) =>
        ret = Return(PyTrue)

-----------------------------------------------------------------------------
(* Properties of the telemetry *)

\* C7: log_hit makes exactly one stat_count call, of {log_name}_hit, whatever
\* api_key.log is; log_success makes exactly one, of
\* api_log.{caller}.{log_name}_hit, and log_failure exactly one, of
\* api_log.{caller}.{log_name}_miss, when api_key.log is true, and neither
\* makes any when it is false.
C7_TelemetryOncePerCall ==
    [][/\ call' = "log_hit" =>
            stats' = Append(stats, <<log_name, "_hit">>)
       /\ call' = "log_success" =>
            stats' = IF api_key.log
                     THEN Append(stats, <<"api_log.", api_key.name, ".", log_name, "_hit">>)
                     ELSE stats
       /\ call' = "log_failure" =>
            stats' = IF api_key.log
                     THEN Append(stats, <<"api_log.", api_key.name, ".", log_name, "_miss">>)
                     ELSE stats]_vars

\* A provider named wifi whose caller logs, after log_hit and log_success:
\* wifi_hit once, api_log.{caller}.wifi_hit once, no _miss.
C7_Witness ==
    /\ call = "log_success"
    /\ api_key.log
    /\ stats = << <<"wifi", "_hit">>, <<"api_log.", api_key.name, ".", "wifi", "_hit">> >>

-----------------------------------------------------------------------------
(* Properties of _estimate_accuracy *)

Estimated == call = "_estimate_accuracy"

Front(s) == SubSeq(s, 1, Len(s) - 1)

SetMax(S) == CHOOSE m \in S : \A x \in S : x <= m

\* Metres from the centroid to points[i]: the thousandths of its kilometres.
MetresTo(i) == distance(lat, lon, points[i].lat, points[i].lon)

\* C2: for a non-empty cluster the call returns a number that is at least
\* minimum; for one observation whose range is None it returns minimum.
C2_AccuracyAtLeastMinimum ==
    (Estimated /\ Len(points) >= 1) =>
        /\ ret.kind = "return"
        /\ ret.value.type \in {"int", "float"}
        /\ ret.value.v >= minimum.v
        /\ (Len(points) = 1 /\ points[1].range = PyNone) => ret.value = minimum

C2_Witness ==
    /\ Estimated
    /\ Len(points) = 1
    /\ points[1].range = PyNone
    /\ ret = Return(minimum)

C5_SingleObservationRange ==
    (Estimated /\ Len(points) = 1 /\ points[1].range # PyNone) =>
        ret = Return(IF minimum.v > points[1].range.v
                     THEN minimum
                     ELSE PyFloat(points[1].range.v))

\* One observation 12 m from the centroid with range 20, minimum 10.
C5_Witness ==
    /\ Estimated
    /\ Len(points) = 1
    /\ MetresTo(1) = 12
    /\ points[1].range = PyInt(20)
    /\ minimum = PyInt(10)
    /\ ret = Return(PyFloat(20))

\* The last observation lies farther from the centroid than every other one.
LastIsFarthest ==
    \A i \in 1..(Len(points) - 1) : MetresTo(Len(points)) > MetresTo(i)

NotBelowFront ==
    LET before == _estimate_accuracy(lat, lon, Front(points), minimum)
    IN  ret.kind = "return" /\ before.kind = "return" /\ ret.value.v >= before.value.v

\* C6 as stated: for every non-empty cluster, one observation included,
\* appending an observation farther from the centroid than every member gives
\* a result that is not below the result for the cluster.
C6_FartherNeverDecreases ==
    (Estimated /\ Len(points) >= 2 /\ LastIsFarthest) => NotBelowFront

\* C6 as amended: for every cluster of two or more observations, appending an
\* observation farther from the centroid than every member gives a result
\* that is not below the result for the cluster.
C6_FartherNeverDecreasesFromTwo ==
    (Estimated /\ Len(points) >= 3 /\ LastIsFarthest) => NotBelowFront

C6_Witness ==
    /\ Estimated
    /\ Len(points) = 3
    /\ LastIsFarthest
    /\ ret.value.v > _estimate_accuracy(lat, lon, Front(points), minimum).value.v

-----------------------------------------------------------------------------
(* Properties of log_tween *)

\* The positions in tw_msgs of request r's calls named event.
Sent(r, event) ==
    {i \in 1..Len(tw_msgs) : tw_msgs[i][1] = r /\ tw_msgs[i][2] = event}

Ignored(out) == out.HTTPClientError /\ ~out.BaseClientError /\ ~out.HTTPRedirection

Captured(out) ==
    /\ out.kind = "raise"
    /\ ~out.BaseClientError
    /\ ~out.HTTPRedirection
    /\ ~out.HTTPClientError

-----------------------------------------------------------------------------
(* Properties of the search *)

Found == {i \in DOMAIN s_results : s_results[i].kind = "found"}

\* C9: when providers returned found results, the result returned is a found
\* one of the smallest accuracy, in whatever order the providers finished,
\* and of the found results of that accuracy it is the earliest provider's.
C9_SmallestAccuracyEarliestWins ==
    (s_best.kind # "pending" /\ Found # {}) =>
        /\ s_best.provider \in Found
        /\ s_best = s_results[s_best.provider]
        /\ \A i \in Found : s_best.accuracy <= s_results[i].accuracy
        /\ \A i \in Found :
              s_results[i].accuracy = s_best.accuracy => s_best.provider <= i

\* Provider 1 found 50 m and provider 2 found 10 m after provider 3, which
\* finished first with 10 m too: provider 2's result is returned.
C9_Witness ==
    /\ s_best.kind = "found"
    /\ s_results[1] = Position(1, 50)
    /\ s_results[2] = Position(2, 10)
    /\ s_results[NumProviders] = Position(NumProviders, 10)
    /\ s_done[1] = NumProviders
    /\ s_best = Position(2, 10)

====
